---- MODULE Spec2Model ----
(***************************************************************************)
(* Model of xn2v: the CSFGraph constructor (csf_graph_tf.py) and the       *)
(* skip-gram batch generator SkipGramWord2Vec.next_batch (word2vec.py).    *)
(***************************************************************************)
EXTENDS Integers, Sequences, FiniteSets, TLC

\* ------------------------------------------------------------------------
\* Bounds of the model
\* ------------------------------------------------------------------------
MaxRows == 2
MaxLen == 4
MaxSkipWindow == 1
MaxBatch == 2
MaxWalks == 2
MaxWalkLen == 2
MaxEdges == 2
MaxSize == 7
MaxSentences == 3
MaxSteps == 2

VARIABLES
    \* CSFGraph.__init__
    edge_file,          \* the edge_file argument: its Python type and the path it names
    disk,               \* what the file system holds at that path
    pc,                 \* "new" before __init__ ran, "raised" or "constructed" after
    exc,                \* type of the exception __init__ raised, "" when none
    exc_msg,            \* its message
    opened,             \* number of open() calls made on the edge file
    self_attrs,         \* names of the attributes assigned on self so far
    node_to_index_map, index_to_node_map,
    edge_to, edge_weight, offset_to_edge_,
    query,              \* the last call of weight, neighbors or has_edge and its outcome
    \* SkipGramWord2Vec
    data,               \* the list handed to next_batch
    skip_window,
    data_index,         \* self.data_index
    batch, labels,      \* the arrays returned by the last next_batch call
    called,             \* whether next_batch has been called
    sg_exc,             \* exception raised by the last next_batch call, "" when none
    call,               \* arguments of the last next_batch call
    starts,             \* start position of the window used by each iteration of the last call
    ctx_pos,            \* window-relative position of the context word of each pair of the last call
    prev_last,          \* start of the last window used before the last call, -1 when none
    \* one record per remaining object
    cbow,               \* a ContinuousBagOfWordsWord2Vec and its last generate_batch_cbow call
    skipgram,           \* the construction of a SkipGramWord2Vec
    link,               \* a LinkPrediction and its last transform call
    embedder,           \* the construction of an Embedder
    trainer             \* a word2vec model, the run of its train method and the exception
                        \* of its last direct next_batch_from_list_of_lists call

graph_vars == <<edge_file, disk, pc, exc, exc_msg, opened, self_attrs,
                node_to_index_map, index_to_node_map, edge_to, edge_weight, offset_to_edge_,
                query>>
sg_vars == <<data, skip_window, data_index, batch, labels, called, sg_exc, call, starts, ctx_pos, prev_last>>
other_vars == <<cbow, skipgram, link, embedder, trainer>>
vars == <<graph_vars, sg_vars, other_vars>>

\* ------------------------------------------------------------------------
\* Generic helpers
\* ------------------------------------------------------------------------
Range(s) == {s[i] : i \in 1..Len(s)}
SeqsUpTo(S, n) == UNION {[1..k -> S] : k \in 0..n}
Min(a, b) == IF a < b THEN a ELSE b
Max(a, b) == IF a > b THEN a ELSE b

\* ------------------------------------------------------------------------
\* Objects that a specification does not exercise stay as they are here
\* ------------------------------------------------------------------------
\* a ContinuousBagOfWordsWord2Vec right after __init__ (data_index = 0)
CbowNew(d, w) ==
    [data |-> d, window_size |-> w, data_index |-> 0, batch |-> <<>>, labels |-> <<>>,
     called |-> FALSE, exc |-> "", batch_size |-> 0, entry |-> 0]
CbowIdle == cbow = CbowNew(<<>>, 0)
SkipGramIdle == skipgram = [data |-> <<>>, pc |-> "new", exc |-> "", list_of_lists |-> "unset"]
LinkIdle == link = [method |-> "hadamard", vectors |-> "list", known |-> {}, edge_list |-> <<>>,
                    pc |-> "new", exc |-> "", exit_status |-> -1, logged |-> 0, embs |-> <<>>]
EmbedderIdle == embedder = [vocabulary_size |-> 1, embedding_size |-> 1, pc |-> "new", exc |-> "",
                            built |-> FALSE]
\* a word2vec object right after __init__; self.data is walks when the
\* constructor found a list in it and data otherwise
TrainerNew(class, lol, d, w, steps, display_step, bs, ns, sw) ==
    [class |-> class, list_of_lists |-> lol, data |-> d, walks |-> w,
     num_steps |-> steps, display_step |-> display_step, batch_size |-> bs,
     num_skips |-> ns, skip_window |-> sw, data_index |-> 0, current_sentence |-> 0,
     pc |-> "new", exc |-> "", step |-> 0, batches |-> 0, optimizations |-> 0,
     reported |-> {}, call_exc |-> ""]
TrainerIdle == trainer = TrainerNew("CBOW", "False", <<>>, <<>>, 0, 1, 0, 1, 1)

\* ========================================================================
\* CSFGraph
\* ========================================================================
Nodes == {"g1", "g2", "p1"}
Weights == {"10", "0.5"}
\* first lines of the files tried: headers with and without the subject and
\* object columns, and first lines of legacy files with 1 to 4 columns
FirstLines == { <<"subject", "object">>, <<"subject", "object", "weight">>,
                <<"object", "subject", "weight">>,
                <<"object", "weight">>, <<"subject", "weight">>,
                <<"g1", "g2">>, <<"g1", "g2", "10">>, <<"p1", "g1", "0.5">>,
                <<"g1">>, <<"g1", "g2", "10", "x">> }
Rows == {<<a, b, w>> : a \in Nodes, b \in Nodes, w \in Weights}
Delims == {"\t", " "}

NoFile(kind) == [kind |-> kind, delim |-> "\t", lines |-> <<>>]
Files == {[kind |-> "file", delim |-> d, lines |-> <<h>> \o r] :
             d \in Delims, h \in FirstLines, r \in SeqsUpTo(Rows, MaxRows)}
          \cup {[kind |-> "file", delim |-> "\t", lines |-> <<>>]}

\* a constructor that forgets the existence check
path_exists_unchecked(d) == TRUE

\* os.path.exists(edge_file)
path_exists(d) == d.kind # "absent"

\* CSFGraph.parse_header: the file is opened, then line 167 stores into the
\* local header_info, which line 166 only annotates and never binds, so the
\* store raises UnboundLocalError before the header line is read.
\* No header_info is ever returned: returned is FALSE on every path.
parse_header(d) ==
    IF d.kind = "absent"
    THEN [exc |-> "FileNotFoundError", opened |-> 0, returned |-> FALSE]
    ELSE IF d.kind = "dir"
    THEN [exc |-> "IsADirectoryError", opened |-> 0, returned |-> FALSE]
    ELSE [exc |-> "UnboundLocalError", opened |-> 1, returned |-> FALSE]

\* the attributes created by lines 64-67
StoreAttrs == {"edgetype2count_dictionary", "nodetype2count_dictionary",
               "node_to_index_map", "index_to_node_map"}

\* no query has been made
NoQuery == [method |-> "", args |-> <<>>, exc |-> "", value |-> <<>>]

\* the value of self.node_to_index_map[n], a defaultdict(int) lookup, as done
\* by weight, neighbors and has_edge; the lookup also stores a missing key,
\* see Stored
node_index(n) == IF n \in DOMAIN node_to_index_map THEN node_to_index_map[n] ELSE 0

\* range(offset_to_edge_[i], offset_to_edge_[i + 1]) as 1-based positions of edge_to
edge_slots(i) == (offset_to_edge_[i + 1] + 1)..offset_to_edge_[i + 2]

neighbors(source) ==
    LET lo == offset_to_edge_[node_index(source) + 1]
        hi == offset_to_edge_[node_index(source) + 2]
    IN  [k \in 1..(hi - lo) |-> index_to_node_map[edge_to[lo + k]]]

has_edge(src, dest) == \E i \in edge_slots(node_index(src)) : edge_to[i] = node_index(dest)

\* <<>> stands for None, <<w>> for the weight w of the first matching slot
weight(source, dest) ==
    LET hits == {i \in edge_slots(node_index(source)) : edge_to[i] = node_index(dest)}
    IN  IF hits = {} THEN <<>>
        ELSE <<edge_weight[CHOOSE i \in hits : \A j \in hits : i <= j]>>

node_count == Cardinality(DOMAIN node_to_index_map)

\* ------------------------------------------------------------------------
\* CSFGraph: the rest of __init__ (lines 72-162), which runs when
\* parse_header returns header_info
\* ------------------------------------------------------------------------
\* items = dict(zip(header_info['header_items'], fields))
HasItem(header, fields, name) ==
    \E i \in 1..Min(Len(header), Len(fields)) : header[i] = name
Item(header, fields, name) == fields[CHOOSE i \in 1..Len(header) : header[i] = name]

\* float(items['weight']), in tenths
ParsedWeight(w) == IF w = "10" THEN 100 ELSE IF w = "0.5" THEN 5 ELSE 0
\* default_weight=1, in tenths
default_weight == 10
\* lines 82-91: the weight of an edge line, in tenths
WeightOf(header, fields) ==
    IF HasItem(header, fields, "weight") THEN ParsedWeight(Item(header, fields, "weight"))
    ELSE default_weight
\* the value an np.int32 slot of edge_weight keeps of a weight given in
\* tenths: its whole part
int32(tenths) == tenths \div 10

\* nodes and edges after the loop of lines 76-104: each line gives its two
\* nodes, an Edge and the inverse Edge
NodesOf(header, rows) ==
    UNION {{Item(header, rows[i], "subject"), Item(header, rows[i], "object")} :
              i \in 1..Len(rows)}
EdgesOf(header, rows) ==
    UNION {{<<Item(header, rows[i], "subject"), Item(header, rows[i], "object"),
              WeightOf(header, rows[i])>>,
            <<Item(header, rows[i], "object"), Item(header, rows[i], "subject"),
              WeightOf(header, rows[i])>>} : i \in 1..Len(rows)}
\* alphabetical order of the labels used
Alphabet == <<"0.5", "10", "g1", "g2", "object", "p1", "subject", "weight", "x", "zz">>
Rank(n) == CHOOSE i \in 1..Len(Alphabet) : Alphabet[i] = n
\* node_list = sorted(nodes)
SortedNodes(nodes) ==
    [k \in 1..Cardinality(nodes) |->
        CHOOSE n \in nodes : Cardinality({m \in nodes : Rank(m) < Rank(n)}) = k - 1]
\* the order of two Edge objects that differ in their nodes: by source node,
\* then by destination node
EdgeBefore(e, f) == Rank(e[1]) < Rank(f[1]) \/ (e[1] = f[1] /\ Rank(e[2]) < Rank(f[2]))
\* edge_list = sorted(edges)
SortedEdges(edges) ==
    [k \in 1..Cardinality(edges) |->
        CHOOSE e \in edges : Cardinality({f \in edges : EdgeBefore(f, e)}) = k - 1]

\* the maps and arrays assigned by lines 107-162; index_to_node_map and the
\* 0-based arrays edge_to, edge_weight and offset_to_edge_ are kept as
\* sequences, position i of an array being element i + 1
BuiltGraph(header, rows) ==
    LET node_list == SortedNodes(NodesOf(header, rows))
        edge_list == SortedEdges(EdgesOf(header, rows))
        n2i == [n \in NodesOf(header, rows) |->
                   (CHOOSE i \in 1..Len(node_list) : node_list[i] = n) - 1]
    IN  [node_to_index_map |-> n2i,
         index_to_node_map |-> [i \in 0..(Len(node_list) - 1) |-> node_list[i + 1]],
         edge_to           |-> [j \in 1..Len(edge_list) |-> n2i[edge_list[j][2]]],
         edge_weight       |-> [j \in 1..Len(edge_list) |-> int32(edge_list[j][3])],
         offset_to_edge_   |-> [c \in 1..(Len(node_list) + 1) |->
                                   Cardinality({j \in 1..Len(edge_list) :
                                                   n2i[edge_list[j][1]] < c - 1})]]

\* the constructor returns: the file has been opened by parse_header and by
\* line 72, and lines 107-162 have assigned the maps and the arrays
Construct(g) ==
    /\ pc' = "constructed"
    /\ exc' = "" /\ exc_msg' = ""
    /\ opened' = 2
    /\ self_attrs' = StoreAttrs \cup {"edge_to", "edge_weight", "offset_to_edge_"}
    /\ node_to_index_map' = g.node_to_index_map
    /\ index_to_node_map' = g.index_to_node_map
    /\ edge_to' = g.edge_to
    /\ edge_weight' = g.edge_weight
    /\ offset_to_edge_' = g.offset_to_edge_
    /\ UNCHANGED query

\* the constructor ends in an exception; msg is kept for the exceptions the
\* constructor raises itself and is "" for those raised below it
Raise(type, msg, nopened, attrs) ==
    /\ pc' = "raised"
    /\ exc' = type
    /\ exc_msg' = msg
    /\ opened' = nopened
    /\ self_attrs' = attrs
    /\ UNCHANGED <<node_to_index_map, index_to_node_map, edge_to, edge_weight, offset_to_edge_>>
    /\ UNCHANGED query

CSFGraph_init ==
    /\ pc = "new"
    /\ IF edge_file.type = "NoneType"
       THEN Raise("TypeError", "The filepath attribute cannot be empty.", 0, {})
       ELSE IF edge_file.type # "str"
       THEN Raise("TypeError", "The filepath attribute must be type str", 0, {})
       ELSE IF ~path_exists(disk)
       THEN Raise("ValueError", "Could not find graph file edges.tsv", 0, {})
       ELSE LET h == parse_header(disk)
            IN  IF ~h.returned
                THEN Raise(h.exc, "", h.opened, StoreAttrs)
                ELSE \* lines 72-162, with the header line as header_items
                     Construct(BuiltGraph(disk.lines[1], Tail(disk.lines)))
    /\ UNCHANGED <<edge_file, disk>>
    /\ UNCHANGED <<sg_vars, other_vars>>

SgIdle ==
    /\ data = <<>> /\ skip_window = 1 /\ data_index = 0 /\ batch = <<>> /\ labels = <<>>
    /\ called = FALSE /\ sg_exc = "" /\ call = [batch_size |-> 0, num_skips |-> 1]
    /\ starts = <<>> /\ ctx_pos = <<>> /\ prev_last = -1

InitGraph ==
    /\ \/ /\ edge_file \in {[type |-> "NoneType", path |-> ""], [type |-> "int", path |-> ""]}
          /\ disk = NoFile("absent")
       \/ /\ edge_file = [type |-> "str", path |-> "edges.tsv"]
          /\ disk \in Files \cup {NoFile("absent"), NoFile("dir")}
    /\ pc = "new"
    /\ exc = "" /\ exc_msg = ""
    /\ opened = 0
    /\ self_attrs = {}
    /\ node_to_index_map = <<>> /\ index_to_node_map = <<>>
    /\ edge_to = <<>> /\ edge_weight = <<>> /\ offset_to_edge_ = <<>>
    /\ query = NoQuery
    /\ SgIdle
    /\ CbowIdle /\ SkipGramIdle /\ LinkIdle /\ EmbedderIdle /\ TrainerIdle

NextGraph == CSFGraph_init

SpecGraph == InitGraph /\ [][NextGraph]_vars

\* ------------------------------------------------------------------------
\* CSFGraph: the queries on a constructed graph
\* ------------------------------------------------------------------------
\* the labels asked about: the nodes and a label that is no node
Labels == Nodes \cup {"zz"}

\* a defaultdict after map[key]: a missing key is stored with the default
Stored(map, key, default) ==
    IF key \in DOMAIN map THEN map
    ELSE [k \in DOMAIN map \cup {key} |-> IF k = key THEN default ELSE map[k]]

\* offset_to_edge_[source_idx + 1] is past the end of the array
NoOffset(source_idx) == source_idx + 2 > Len(offset_to_edge_)

\* weight(source, dest): both labels are looked up, then the slots of
\* source are searched
weight_call ==
    /\ pc = "constructed"
    /\ \E source \in Labels, dest \in Labels :
         /\ node_to_index_map' = Stored(Stored(node_to_index_map, source, 0), dest, 0)
         /\ query' = [method |-> "weight", args |-> <<source, dest>>,
                      exc |-> IF NoOffset(node_index(source)) THEN "IndexError" ELSE "",
                      value |-> IF NoOffset(node_index(source)) THEN <<>>
                                ELSE weight(source, dest)]
    /\ UNCHANGED <<edge_file, disk, pc, exc, exc_msg, opened, self_attrs,
                   index_to_node_map, edge_to, edge_weight, offset_to_edge_>>
    /\ UNCHANGED <<sg_vars, other_vars>>

\* neighbors(source): source is looked up, then index_to_node_map, a
\* defaultdict(str), is read with [] for every slot of source
neighbors_call ==
    /\ pc = "constructed"
    /\ \E source \in Labels :
         /\ node_to_index_map' = Stored(node_to_index_map, source, 0)
         /\ IF NoOffset(node_index(source))
            THEN /\ query' = [method |-> "neighbors", args |-> <<source>>,
                              exc |-> "IndexError", value |-> <<>>]
                 /\ UNCHANGED index_to_node_map
            ELSE /\ query' = [method |-> "neighbors", args |-> <<source>>,
                              exc |-> "", value |-> neighbors(source)]
                 /\ index_to_node_map' =
                      [k \in DOMAIN index_to_node_map
                             \cup {edge_to[i] : i \in edge_slots(node_index(source))} |->
                          IF k \in DOMAIN index_to_node_map THEN index_to_node_map[k] ELSE ""]
    /\ UNCHANGED <<edge_file, disk, pc, exc, exc_msg, opened, self_attrs,
                   edge_to, edge_weight, offset_to_edge_>>
    /\ UNCHANGED <<sg_vars, other_vars>>

\* has_edge(src, dest): both labels are looked up, then the slots of src
\* are searched
has_edge_call ==
    /\ pc = "constructed"
    /\ \E src \in Labels, dest \in Labels :
         /\ node_to_index_map' = Stored(Stored(node_to_index_map, src, 0), dest, 0)
         /\ query' = [method |-> "has_edge", args |-> <<src, dest>>,
                      exc |-> IF NoOffset(node_index(src)) THEN "IndexError" ELSE "",
                      value |-> IF NoOffset(node_index(src)) THEN <<>>
                                ELSE <<has_edge(src, dest)>>]
    /\ UNCHANGED <<edge_file, disk, pc, exc, exc_msg, opened, self_attrs,
                   index_to_node_map, edge_to, edge_weight, offset_to_edge_>>
    /\ UNCHANGED <<sg_vars, other_vars>>

NextGraphQueries == weight_call \/ neighbors_call \/ has_edge_call

\* the constructor followed by queries. A query needs a constructed graph,
\* and parse_header returns on no path, so no behaviour of this
\* specification takes a query step.
SpecGraphQueries == InitGraph /\ [][NextGraph \/ NextGraphQueries]_vars


\* ========================================================================
\* SkipGramWord2Vec.next_batch
\* ========================================================================
\* data[a:b] of Python, for 0 <= a
Slice(seq, a, b) == SubSeq(seq, a + 1, Min(b, Len(seq)))

\* collections.deque(maxlen): extend and append drop items from the left
DequeExtend(buf, items, maxlen) ==
    LET all == buf \o items
    IN  SubSeq(all, Max(1, Len(all) - maxlen + 1), Len(all))

\* span = (2 * skip_window) + 1
Span(sw) == (2 * sw) + 1

\* a context that keeps the center word
ContextWords_all(span, sw) == 0..(span - 1)

\* context_words = [w for w in range(span) if w != skip_window]
ContextWords(span, sw) == {w \in 0..(span - 1) : w # sw}

\* the outcomes of random.sample(context_words, num_skips): the sequences of
\* num_skips pairwise distinct elements
Samples(S, k) == {s \in [1..k -> S] : \A i, j \in 1..k : i # j => s[i] # s[j]}

\* a batch end that does not step back
Backtrack_none(di, len, span) == di % len

\* self.data_index = (self.data_index + len(data) - span) % len(data)
Backtrack(di, len, span) == (di + len - span) % len

\* the loop of lines 320-340, from iteration i on; st holds the locals and
\* self.data_index, samples[i] is what random.sample returns in iteration i
RECURSIVE BatchLoop(_, _, _, _, _)
BatchLoop(i, st, samples, ns, sw) ==
    IF i > Len(samples) THEN st
    ELSE LET s == samples[i]
             span == Span(sw)
             at_end == st.di = Len(data)
         IN  BatchLoop(i + 1,
                 [buffer |-> IF at_end
                             THEN DequeExtend(st.buffer, Slice(data, 0, span), span)
                             ELSE DequeExtend(st.buffer, <<data[st.di + 1]>>, span),
                  di     |-> IF at_end THEN span ELSE st.di + 1,
                  batch  |-> st.batch \o [j \in 1..ns |-> st.buffer[sw + 1]],
                  labels |-> st.labels \o [j \in 1..ns |-> <<st.buffer[s[j] + 1]>>],
                  starts |-> Append(st.starts, st.di - span),
                  ctx    |-> st.ctx \o s],
                 samples, ns, sw)

LastStart == IF starts # <<>> THEN starts[Len(starts)] ELSE prev_last

SgRaise(type, di, bs, ns) ==
    /\ sg_exc' = type
    /\ data_index' = di
    /\ batch' = <<>> /\ labels' = <<>> /\ starts' = <<>> /\ ctx_pos' = <<>>
    /\ call' = [batch_size |-> bs, num_skips |-> ns]
    /\ prev_last' = LastStart

next_batch ==
    /\ \E bs \in 0..MaxBatch, ns \in 1..(2 * MaxSkipWindow) :
         LET sw == skip_window
             span == Span(sw)
             iters == bs \div ns
             di0 == IF data_index + span > Len(data) THEN 0 ELSE data_index
         IN  IF ~(bs % ns = 0 /\ ns <= 2 * sw)
             THEN SgRaise("AssertionError", data_index, bs, ns)
             ELSE IF Len(data) < span /\ iters > 0
             THEN \* buffer.append(data[self.data_index]) with data_index = span
                  SgRaise("IndexError", di0 + span, bs, ns)
             ELSE IF Len(data) = 0
             THEN SgRaise("ZeroDivisionError", di0 + span, bs, ns)
             ELSE \E samples \in [1..iters -> Samples(ContextWords(span, sw), ns)] :
                    LET st == BatchLoop(1, [buffer |-> Slice(data, di0, di0 + span),
                                            di |-> di0 + span,
                                            batch |-> <<>>, labels |-> <<>>,
                                            starts |-> <<>>, ctx |-> <<>>],
                                        samples, ns, sw)
                    IN  /\ sg_exc' = ""
                        /\ data_index' = Backtrack(st.di, Len(data), span)
                        /\ batch' = st.batch
                        /\ labels' = st.labels
                        /\ starts' = st.starts
                        /\ ctx_pos' = st.ctx
                        /\ call' = [batch_size |-> bs, num_skips |-> ns]
                        /\ prev_last' = LastStart
    /\ called' = TRUE
    /\ UNCHANGED <<data, skip_window>>
    /\ UNCHANGED <<graph_vars, other_vars>>

GraphIdle ==
    /\ edge_file = [type |-> "NoneType", path |-> ""] /\ disk = NoFile("absent")
    /\ pc = "new" /\ exc = "" /\ exc_msg = "" /\ opened = 0 /\ self_attrs = {}
    /\ node_to_index_map = <<>> /\ index_to_node_map = <<>>
    /\ edge_to = <<>> /\ edge_weight = <<>> /\ offset_to_edge_ = <<>>
    /\ query = NoQuery

\* the words (integer node ids) the lists are made of
Words == {1, 2}

\* SkipGramWord2Vec.__init__ sets data_index to 0
InitSkipGram ==
    /\ data \in SeqsUpTo(Words, MaxLen)
    /\ skip_window \in 1..MaxSkipWindow
    /\ data_index = 0
    /\ batch = <<>> /\ labels = <<>>
    /\ called = FALSE
    /\ sg_exc = ""
    /\ call = [batch_size |-> 0, num_skips |-> 1]
    /\ starts = <<>> /\ ctx_pos = <<>>
    /\ prev_last = -1
    /\ GraphIdle
    /\ CbowIdle /\ SkipGramIdle /\ LinkIdle /\ EmbedderIdle /\ TrainerIdle

NextSkipGram == next_batch

SpecSkipGram == InitSkipGram /\ [][NextSkipGram]_vars

\* ========================================================================
\* ContinuousBagOfWordsWord2Vec.generate_batch_cbow
\* ========================================================================
\* a row builder that leaves out the first word of the window, not the center
CbowSkipped_first(span) == 0

\* the buffer position the row leaves out: j == span // 2
CbowSkipped(span) == span \div 2

\* lines 665-667 from the k-th append on: buffer.append(data[self.data_index])
\* and self.data_index = (self.data_index + 1) % len(data)
RECURSIVE CbowFill(_, _, _, _)
CbowFill(k, st, d, span) ==
    IF k > span THEN st
    ELSE CbowFill(k + 1,
                  [st EXCEPT !.buffer = DequeExtend(st.buffer, <<d[st.di + 1]>>, span),
                             !.di = (st.di + 1) % Len(d)],
                  d, span)

\* lines 674-678: the columns of one row, the words of the buffer but the skipped one
CbowRow(buffer, span) ==
    [c \in 1..(span - 1) |-> IF c - 1 < CbowSkipped(span) THEN buffer[c] ELSE buffer[c + 1]]

\* lines 670-683 from row i on
RECURSIVE CbowRows(_, _, _, _, _, _)
CbowRows(i, st, d, batch_size, window_size, span) ==
    IF i > batch_size THEN st
    ELSE CbowRows(i + 1,
                  [buffer |-> DequeExtend(st.buffer, <<d[st.di + 1]>>, span),
                   di     |-> (st.di + 1) % Len(d),
                   batch  |-> Append(st.batch, CbowRow(st.buffer, span)),
                   labels |-> Append(st.labels, <<st.buffer[window_size + 1]>>)],
                  d, batch_size, window_size, span)

generate_batch_cbow ==
    /\ \E batch_size \in 0..MaxBatch :
         LET d == cbow.data
             w == cbow.window_size
             span == (2 * w) + 1
         IN  IF Len(d) = 0
             THEN \* data[self.data_index] of the first append
                  cbow' = [cbow EXCEPT !.called = TRUE, !.exc = "IndexError",
                                       !.batch = <<>>, !.labels = <<>>,
                                       !.batch_size = batch_size, !.entry = cbow.data_index]
             ELSE LET filled == CbowFill(1, [buffer |-> <<>>, di |-> cbow.data_index,
                                             batch |-> <<>>, labels |-> <<>>], d, span)
                      st == CbowRows(1, filled, d, batch_size, w, span)
                  IN  cbow' = [cbow EXCEPT !.called = TRUE, !.exc = "",
                                           !.data_index = st.di,
                                           !.batch = st.batch, !.labels = st.labels,
                                           !.batch_size = batch_size,
                                           !.entry = cbow.data_index]
    /\ UNCHANGED <<graph_vars, sg_vars, skipgram, link, embedder, trainer>>

InitCbow ==
    /\ cbow \in {CbowNew(d, w) : d \in SeqsUpTo(Words, MaxLen), w \in 0..MaxSkipWindow}
    /\ GraphIdle /\ SgIdle
    /\ SkipGramIdle /\ LinkIdle /\ EmbedderIdle /\ TrainerIdle

NextCbow == generate_batch_cbow

SpecCbow == InitCbow /\ [][NextCbow]_vars

\* ========================================================================
\* SkipGramWord2Vec.__init__
\* ========================================================================
\* the elements of data: a walk (a list of items, each an int or a str) or an
\* int that stands in the list by itself
ItemTypes == {"int", "str"}
Walk(items) == [list |-> TRUE, items |-> items]
Scalar == [list |-> FALSE, items |-> <<>>]
Elements == {Walk(w) : w \in SeqsUpTo(ItemTypes, MaxWalkLen)} \cup {Scalar}

\* any(isinstance(el, list) for el in self.data)
AnyList(d) == \E i \in 1..Len(d) : d[i].list

\* any(isinstance(item, int) for item in el)
AnyInt(el) == \E k \in 1..Len(el.items) : el.items[k] = "int"

\* the loop of lines 182-189 from element i on; lol is self.list_of_lists.
\* Iterating an element that is an int raises TypeError before the attribute
\* is touched.
RECURSIVE CheckWalks(_, _, _)
CheckWalks(i, d, lol) ==
    IF i > Len(d) THEN [exc |-> "", list_of_lists |-> lol]
    ELSE IF ~d[i].list THEN [exc |-> "TypeError", list_of_lists |-> lol]
    ELSE IF AnyInt(d[i]) THEN CheckWalks(i + 1, d, "True")
    ELSE [exc |-> "TypeError", list_of_lists |-> "False"]

SkipGramWord2Vec_init ==
    /\ skipgram.pc = "new"
    /\ LET r == IF AnyList(skipgram.data) THEN CheckWalks(1, skipgram.data, "unset")
                ELSE [exc |-> "", list_of_lists |-> "unset"]
       IN  skipgram' = [skipgram EXCEPT !.pc = IF r.exc = "" THEN "constructed" ELSE "raised",
                                        !.exc = r.exc,
                                        !.list_of_lists = r.list_of_lists]
    /\ UNCHANGED <<graph_vars, sg_vars, cbow, link, embedder, trainer>>

InitSkipGramInit ==
    /\ skipgram \in {[data |-> d, pc |-> "new", exc |-> "", list_of_lists |-> "unset"] :
                        d \in SeqsUpTo(Elements, MaxWalks)}
    /\ GraphIdle /\ SgIdle
    /\ CbowIdle /\ LinkIdle /\ EmbedderIdle /\ TrainerIdle

NextSkipGramInit == SkipGramWord2Vec_init

SpecSkipGramInit == InitSkipGramInit /\ [][NextSkipGramInit]_vars

\* ========================================================================
\* LinkPrediction.transform
\* ========================================================================
EdgeMethods == {"hadamard", "average", "weightedL1", "weightedL2"}
\* values of edge_embedding_method tried: the four above and two others
Methods == EdgeMethods \cup {"Hadamard", "cosine"}
\* the embedding of each node; read_embeddings stores Python lists of floats,
\* a caller of transform may also hand in numpy arrays
NodeVector(n) == IF n = "g1" THEN <<2, 4>> ELSE IF n = "g2" THEN <<0, -2>> ELSE <<6, 2>>
VectorTypes == {"list", "ndarray"}

Magnitude(x) == IF x < 0 THEN -x ELSE x
\* np.multiply(emb1, emb2)
Hadamard(a, b) == [k \in 1..Len(a) |-> a[k] * b[k]]
\* np.add(emb1, emb2) / 2, exact for the even components used
Average(a, b) == [k \in 1..Len(a) |-> (a[k] + b[k]) \div 2]
\* abs(emb1 - emb2)
WeightedL1(a, b) == [k \in 1..Len(a) |-> Magnitude(a[k] - b[k])]
\* np.power((emb1 - emb2), 2)
WeightedL2(a, b) == [k \in 1..Len(a) |-> (a[k] - b[k]) * (a[k] - b[k])]

\* the body of the loop of lines 130-158 for one edge: the exception it
\* raises ("" when none) and the edge embedding. emb1 - emb2 is not defined
\* for two Python lists.
EdgeEmbedding(method, vtype, known, edge) ==
    IF edge[1] \notin known \/ edge[2] \notin known
    THEN [exc |-> "KeyError", emb |-> <<>>]
    ELSE LET a == NodeVector(edge[1])
             b == NodeVector(edge[2])
         IN  IF method = "hadamard" THEN [exc |-> "", emb |-> Hadamard(a, b)]
             ELSE IF method = "average" THEN [exc |-> "", emb |-> Average(a, b)]
             ELSE IF method = "weightedL1"
             THEN IF vtype = "list" THEN [exc |-> "TypeError", emb |-> <<>>]
                  ELSE [exc |-> "", emb |-> WeightedL1(a, b)]
             ELSE IF method = "weightedL2"
             THEN IF vtype = "list" THEN [exc |-> "TypeError", emb |-> <<>>]
                  ELSE [exc |-> "", emb |-> WeightedL2(a, b)]
             ELSE [exc |-> "SystemExit", emb |-> <<>>]

\* the loop of lines 130-158 from edge i on
RECURSIVE TransformLoop(_, _, _)
TransformLoop(i, l, embs) ==
    IF i > Len(l.edge_list) THEN [exc |-> "", embs |-> embs]
    ELSE LET e == EdgeEmbedding(l.method, l.vectors, l.known, l.edge_list[i])
         IN  IF e.exc # "" THEN [exc |-> e.exc, embs |-> <<>>]
             ELSE TransformLoop(i + 1, l, Append(embs, e.emb))

transform ==
    /\ link.pc = "new"
    /\ LET r == TransformLoop(1, link, <<>>)
       IN  link' = [link EXCEPT
                      !.pc = IF r.exc = "" THEN "returned"
                             ELSE IF r.exc = "SystemExit" THEN "exited" ELSE "raised",
                      !.exc = r.exc,
                      !.exit_status = IF r.exc = "SystemExit" THEN 1 ELSE -1,
                      !.logged = IF r.exc = "SystemExit" THEN 1 ELSE 0,
                      !.embs = r.embs]
    /\ UNCHANGED <<graph_vars, sg_vars, cbow, skipgram, embedder, trainer>>

InitLink ==
    /\ link \in {[method |-> m, vectors |-> v, known |-> k, edge_list |-> l,
                  pc |-> "new", exc |-> "", exit_status |-> -1, logged |-> 0, embs |-> <<>>] :
                     m \in Methods, v \in VectorTypes, k \in {Nodes, Nodes \ {"p1"}},
                     l \in SeqsUpTo(Nodes \X Nodes, MaxEdges)}
    /\ GraphIdle /\ SgIdle
    /\ CbowIdle /\ SkipGramIdle /\ EmbedderIdle /\ TrainerIdle

NextLink == transform

SpecLink == InitLink /\ [][NextLink]_vars

\* ========================================================================
\* Embedder.__init__ (embiggen.embedders.embedder), as exercised by
\* tests/test_embedder.py
\* ========================================================================
\* the argument check of the constructor
IllegalSizes_vocabulary_only(vocabulary_size, embedding_size) == vocabulary_size < 1
IllegalSizes(vocabulary_size, embedding_size) == vocabulary_size < 1 \/ embedding_size < 1

Embedder_init ==
    /\ embedder.pc = "new"
    /\ IF IllegalSizes(embedder.vocabulary_size, embedder.embedding_size)
       THEN embedder' = [embedder EXCEPT !.pc = "raised", !.exc = "ValueError"]
       ELSE \* the sizes are accepted and the abstract _build_model is called
            embedder' = [embedder EXCEPT !.pc = "raised", !.exc = "NotImplementedError",
                                         !.built = TRUE]
    /\ UNCHANGED <<graph_vars, sg_vars, cbow, skipgram, link, trainer>>

InitEmbedder ==
    /\ embedder \in {[vocabulary_size |-> v, embedding_size |-> e, pc |-> "new", exc |-> "",
                      built |-> FALSE] : v \in 0..MaxSize, e \in 0..MaxSize}
    /\ GraphIdle /\ SgIdle
    /\ CbowIdle /\ SkipGramIdle /\ LinkIdle /\ TrainerIdle

NextEmbedder == Embedder_init

SpecEmbedder == InitEmbedder /\ [][NextEmbedder]_vars

\* ========================================================================
\* SkipGramWord2Vec.train and ContinuousBagOfWordsWord2Vec.train
\* ========================================================================
\* the node ids of the walks; the training loop looks at the lengths only
WalkWords == {1}

\* self.data_index after i more iterations of the loop of lines 320-340
RECURSIVE SlideIndex(_, _, _, _)
SlideIndex(i, di, len, span) ==
    IF i = 0 THEN di
    ELSE SlideIndex(i - 1, IF di = len THEN span ELSE di + 1, len, span)

\* next_batch(data, batch_size, num_skips, skip_window) on a list of len
\* words with self.data_index = di: the exception raised ("" when none) and
\* self.data_index afterwards
NextBatchOutcome(len, di, bs, ns, sw) ==
    LET span == Span(sw)
        iters == bs \div ns
        di0 == IF di + span > len THEN 0 ELSE di
    IN  IF ~(bs % ns = 0 /\ ns <= 2 * sw) THEN [exc |-> "AssertionError", di |-> di]
        ELSE IF bs < 0
        THEN \* np.ndarray(shape=(batch_size,)) with a negative dimension
             [exc |-> "ValueError", di |-> di]
        ELSE IF len < span /\ iters > 0 THEN [exc |-> "IndexError", di |-> di0 + span]
        ELSE IF len = 0 THEN [exc |-> "ZeroDivisionError", di |-> di0 + span]
        ELSE [exc |-> "", di |-> Backtrack(SlideIndex(iters, di0 + span, len, span), len, span)]

\* the loop of lines 369-382 of next_batch_from_list_of_lists, from walk i
\* on; st holds self.current_sentence and self.data_index
RECURSIVE WalkLoop(_, _, _, _)
WalkLoop(i, walk_count, st, t) ==
    IF i >= walk_count \/ st.exc # "" THEN st
    ELSE LET cs == st.cs + 1
         IN  IF cs >= Len(t.walks)
             THEN \* sentence = self.data[self.current_sentence]
                  [st EXCEPT !.cs = cs, !.exc = "IndexError"]
             ELSE LET sentence == t.walks[cs + 1]
                      batch_count == (Len(sentence) - Span(t.skip_window)) + 1
                      r == NextBatchOutcome(Len(sentence), st.di, batch_count,
                                            t.num_skips, t.skip_window)
                  IN  WalkLoop(i + 1, walk_count,
                               [cs |-> IF r.exc = "" /\ cs = Len(t.walks) THEN 0 ELSE cs,
                                di |-> r.di, exc |-> r.exc], t)

next_batch_from_list_of_lists(walk_count, t) ==
    IF ~(t.num_skips <= 2 * t.skip_window)
    THEN [cs |-> t.current_sentence, di |-> t.data_index, exc |-> "AssertionError"]
    ELSE WalkLoop(0, walk_count, [cs |-> t.current_sentence, di |-> t.data_index, exc |-> ""], t)

\* SkipGramWord2Vec.next_batch_from_list_of_lists on a flat list of words:
\* after the index, len(sentence) of an int raises TypeError
FlatWalkLoop(walk_count, t) ==
    IF ~(t.num_skips <= 2 * t.skip_window)
    THEN [cs |-> t.current_sentence, di |-> t.data_index, exc |-> "AssertionError"]
    ELSE IF walk_count = 0
    THEN [cs |-> t.current_sentence, di |-> t.data_index, exc |-> ""]
    ELSE [cs |-> t.current_sentence + 1, di |-> t.data_index,
          exc |-> IF t.current_sentence + 1 >= Len(t.data) THEN "IndexError" ELSE "TypeError"]

\* ContinuousBagOfWordsWord2Vec.next_batch_from_list_of_lists (lines 687-724)
\* on a flat list of words: the sentence is indexed first, then
\* current_sentence is advanced, then len(sentence) of an int raises
\* TypeError
CbowWalkLoop(walk_count, num_skips, window, t) ==
    IF ~(num_skips <= 2 * window)
    THEN [cs |-> t.current_sentence, exc |-> "AssertionError"]
    ELSE IF walk_count = 0
    THEN [cs |-> t.current_sentence, exc |-> ""]
    ELSE IF t.current_sentence >= Len(t.data)
    THEN [cs |-> t.current_sentence, exc |-> "IndexError"]
    ELSE [cs |-> t.current_sentence + 1, exc |-> "TypeError"]

\* the batch of one epoch of SkipGramWord2Vec.train (lines 431-435)
SkipGramBatch(t) ==
    IF t.list_of_lists = "unset"
    THEN \* self.list_of_lists was never assigned
         [cs |-> t.current_sentence, di |-> t.data_index, exc |-> "AttributeError"]
    ELSE IF t.list_of_lists = "True"
    THEN next_batch_from_list_of_lists(2, t)
    ELSE LET r == NextBatchOutcome(Len(t.data), t.data_index, t.batch_size,
                                   t.num_skips, t.skip_window)
         IN  [cs |-> t.current_sentence, di |-> r.di, exc |-> r.exc]

\* the batch of one step of ContinuousBagOfWordsWord2Vec.train (line 762):
\* generate_batch_cbow(self.data, self.batch_size, self.skip_window)
CbowBatch(t) ==
    IF Len(t.data) = 0
    THEN [cs |-> t.current_sentence, di |-> t.data_index, exc |-> "IndexError"]
    ELSE [cs |-> t.current_sentence,
          di |-> (t.data_index + Span(t.skip_window) + t.batch_size) % Len(t.data),
          exc |-> ""]

\* if epoch % display_step == 0 or epoch == 1
Displayed(step, display_step) == step % display_step = 0 \/ step = 1

\* one iteration of the loop over range(1, self.num_steps + 1)
train_step ==
    /\ trainer.pc \in {"new", "running"}
    /\ trainer.step < trainer.num_steps
    /\ LET step == trainer.step + 1
           b == IF trainer.class = "SkipGram" THEN SkipGramBatch(trainer) ELSE CbowBatch(trainer)
       IN  IF b.exc # ""
           THEN trainer' = [trainer EXCEPT !.pc = "raised", !.exc = b.exc, !.step = step,
                                           !.current_sentence = b.cs, !.data_index = b.di]
           ELSE trainer' = [trainer EXCEPT
                              !.pc = "running", !.step = step,
                              !.current_sentence = b.cs, !.data_index = b.di,
                              !.batches = @ + 1,
                              \* self.run_optimization(batch_x, batch_y)
                              !.optimizations = @ + 1,
                              !.reported = IF Displayed(step, trainer.display_step)
                                           THEN @ \cup {step} ELSE @]
    /\ UNCHANGED <<graph_vars, sg_vars, cbow, skipgram, link, embedder>>

\* the range is exhausted
train_return ==
    /\ trainer.pc \in {"new", "running"}
    /\ trainer.step = trainer.num_steps
    /\ trainer' = [trainer EXCEPT !.pc = "returned"]
    /\ UNCHANGED <<graph_vars, sg_vars, cbow, skipgram, link, embedder>>

\* a direct call of SkipGramWord2Vec.next_batch_from_list_of_lists
skipgram_next_batch_from_list_of_lists ==
    /\ trainer.pc = "new" /\ trainer.class = "SkipGram"
    \* current_sentence grows with every failed call: it is followed up to
    \* the first value past the end of self.data
    /\ trainer.current_sentence <= Len(trainer.data) + Len(trainer.walks)
    /\ \E walk_count \in 0..MaxWalks, ns \in 1..(2 * MaxSkipWindow), sw \in 1..MaxSkipWindow :
         LET t == [trainer EXCEPT !.num_skips = ns, !.skip_window = sw]
             r == IF trainer.list_of_lists = "True"
                  THEN next_batch_from_list_of_lists(walk_count, t)
                  ELSE FlatWalkLoop(walk_count, t)
         IN  trainer' = [trainer EXCEPT !.current_sentence = r.cs, !.data_index = r.di,
                                         !.call_exc = r.exc]
    /\ UNCHANGED <<graph_vars, sg_vars, cbow, skipgram, link, embedder>>

\* a direct call of ContinuousBagOfWordsWord2Vec.next_batch_from_list_of_lists
cbow_next_batch_from_list_of_lists ==
    /\ trainer.pc = "new" /\ trainer.class = "CBOW"
    /\ \E walk_count \in 0..MaxWalks, ns \in 1..(2 * MaxSkipWindow), sw \in 1..MaxSkipWindow :
         LET r == CbowWalkLoop(walk_count, ns, sw, trainer)
         IN  trainer' = [trainer EXCEPT !.current_sentence = r.cs, !.call_exc = r.exc]
    /\ UNCHANGED <<graph_vars, sg_vars, cbow, skipgram, link, embedder>>

\* the constructed objects: a SkipGramWord2Vec on a flat list leaves
\* list_of_lists unset, on non-empty walks of ints sets it to True; a
\* ContinuousBagOfWordsWord2Vec on a flat list sets it to False
InitTrain ==
    /\ \E steps \in 0..MaxSteps, display_step \in 1..MaxSteps, bs \in 0..MaxBatch,
          sw \in 1..MaxSkipWindow :
         \E ns \in 1..(2 * MaxSkipWindow) :
            \/ \E d \in SeqsUpTo(Words, MaxLen) :
                 \/ trainer = TrainerNew("SkipGram", "unset", d, <<>>, steps, display_step, bs, ns, sw)
                 \/ trainer = TrainerNew("CBOW", "False", d, <<>>, steps, display_step, bs, ns, sw)
            \/ \E w \in SeqsUpTo(SeqsUpTo(WalkWords, MaxWalkLen) \ {<<>>}, MaxSentences) :
                 /\ w # <<>>
                 /\ trainer = TrainerNew("SkipGram", "True", <<>>, w, steps, display_step, bs, ns, sw)
    /\ GraphIdle /\ SgIdle
    /\ CbowIdle /\ SkipGramIdle /\ LinkIdle /\ EmbedderIdle

NextTrain ==
    \/ train_step
    \/ train_return
    \/ skipgram_next_batch_from_list_of_lists
    \/ cbow_next_batch_from_list_of_lists

SpecTrain == InitTrain /\ [][NextTrain]_vars

\* ========================================================================
\* What an edge file says, as the documentation of CSFGraph reads it
\* ========================================================================
\* header.strip().split('\t') of the first line
FirstItems(d) ==
    IF d.delim = "\t" \/ Len(d.lines[1]) = 1 THEN d.lines[1] ELSE <<"one space-delimited item">>

IsEdgeFile(d) == d.kind = "file" /\ d.lines # <<>>
HasHeader(d) == IsEdgeFile(d) /\ {"subject", "object"} \subseteq Range(FirstItems(d))
\* a file without header whose lines are two nodes and an optional weight
IsLegacy(d) == IsEdgeFile(d) /\ {"subject", "object"} \cap Range(d.lines[1]) = {}
                /\ "weight" \notin Range(d.lines[1])
Columns(d) == IF HasHeader(d) THEN d.lines[1]
              ELSE SubSeq(<<"subject", "object", "weight">>, 1, Len(d.lines[1]))
EdgeLines(d) == IF HasHeader(d) THEN Tail(d.lines) ELSE d.lines
WellFormed(d) == HasHeader(d) \/ (IsLegacy(d) /\ Len(d.lines[1]) \in {2, 3})
ColumnOf(d, name) == CHOOSE i \in 1..Len(Columns(d)) : Columns(d)[i] = name
Subject(d, line) == line[ColumnOf(d, "subject")]
Object(d, line) == line[ColumnOf(d, "object")]
HasWeight(d, line) == "weight" \in Range(Columns(d)) /\ ColumnOf(d, "weight") <= Len(line)
LineWeight(d, line) == IF HasWeight(d, line) THEN ParsedWeight(line[ColumnOf(d, "weight")])
                       ELSE default_weight
FileLines(d) == {EdgeLines(d)[i] : i \in 1..Len(EdgeLines(d))}
FileNodes(d) == UNION {{Subject(d, l), Object(d, l)} : l \in FileLines(d)}
FileNeighbours(d, n) ==
    {Object(d, l) : l \in {x \in FileLines(d) : Subject(d, x) = n}}
    \cup {Subject(d, l) : l \in {x \in FileLines(d) : Object(d, x) = n}}
FileWeights(d, a, b) ==
    {LineWeight(d, l) : l \in {x \in FileLines(d) :
        \/ Subject(d, x) = a /\ Object(d, x) = b
        \/ Subject(d, x) = b /\ Object(d, x) = a}}
SortedPosition(d, n) == Cardinality({m \in FileNodes(d) : Rank(m) < Rank(n)})
Finished == pc # "new" /\ edge_file.type = "str"
Built == pc = "constructed"

\* ------------------------------------------------------------------------
\* Claims about CSFGraph
\* ------------------------------------------------------------------------
\* C1: a CSFGraph built from an edge file holds, for every node n with index
\* i, in edge_to[offset_to_edge_[i] : offset_to_edge_[i+1]] exactly the
\* indices of the nodes that share an edge line with n, and neighbors(n)
\* returns exactly those nodes.
C1_NeighborsAreFileNeighbours ==
    (Finished /\ WellFormed(disk)) =>
        /\ Built
        /\ \A n \in FileNodes(disk) :
             /\ Range(neighbors(n)) = FileNeighbours(disk, n)
             /\ {edge_to[i] : i \in edge_slots(node_index(n))}
                    = {node_index(m) : m \in FileNeighbours(disk, n)}

\* C2: node_to_index_map gives every node label its position in the sorted
\* list of unique labels, the indices are 0..node_count()-1, and
\* index_to_node_map is the inverse map.
C2_IndexMapsAreSortedInverse ==
    (Finished /\ WellFormed(disk)) =>
        /\ Built
        /\ DOMAIN node_to_index_map = FileNodes(disk)
        /\ \A n \in FileNodes(disk) : node_to_index_map[n] = SortedPosition(disk, n)
        /\ {node_to_index_map[n] : n \in FileNodes(disk)} = 0..(node_count - 1)
        /\ \A n \in FileNodes(disk) : index_to_node_map[node_to_index_map[n]] = n

\* C3: offset_to_edge_ has one entry more than there are unique nodes, and
\* the entry at a node's index is the number of edges leaving that node.
C3_OffsetHoldsOutDegree ==
    (Finished /\ WellFormed(disk)) =>
        /\ Built
        /\ Len(offset_to_edge_) = Cardinality(FileNodes(disk)) + 1
        /\ \A n \in FileNodes(disk) :
             offset_to_edge_[node_index(n) + 1] = Cardinality(FileNeighbours(disk, n))

\* C4: weight(source, dest) is the value parsed from the weight column of the
\* edge between source and dest, default_weight when the file has no weight
\* column, and None when there is no such edge.
C4_WeightIsParsedWeight ==
    (Finished /\ WellFormed(disk)) =>
        /\ Built
        /\ \A a, b \in FileNodes(disk) :
             IF b \in FileNeighbours(disk, a)
             THEN \E w \in FileWeights(disk, a, b) :
                    weight(a, b) # <<>> /\ weight(a, b)[1] * 10 = w
             ELSE weight(a, b) = <<>>

\* C5: every edge line with subject a and object b gives has_edge(a, b),
\* has_edge(b, a) and weight(a, b) = weight(b, a).
C5_EdgesAreSymmetric ==
    (Finished /\ WellFormed(disk)) =>
        /\ Built
        /\ \A l \in FileLines(disk) :
             LET a == Subject(disk, l)
                 b == Object(disk, l)
             IN  has_edge(a, b) /\ has_edge(b, a) /\ weight(a, b) = weight(b, a)

\* C6: the constructor raises TypeError for a None edge_file, TypeError for
\* an edge_file that is not a str and ValueError for a path that does not
\* exist, checked in that order, before any file is opened and before any
\* attribute of the graph is created.
C6_ArgumentChecksComeFirst ==
    pc # "new" =>
        /\ edge_file.type = "NoneType" =>
             /\ exc = "TypeError" /\ exc_msg = "The filepath attribute cannot be empty."
             /\ opened = 0 /\ self_attrs = {}
        /\ edge_file.type \notin {"NoneType", "str"} =>
             /\ exc = "TypeError" /\ exc_msg = "The filepath attribute must be type str"
             /\ opened = 0 /\ self_attrs = {}
        /\ (edge_file.type = "str" /\ disk.kind = "absent") =>
             /\ exc = "ValueError" /\ exc_msg = "Could not find graph file edges.tsv"
             /\ opened = 0 /\ self_attrs = {}
        /\ (opened > 0 \/ self_attrs # {}) => (edge_file.type = "str" /\ disk.kind # "absent")

\* the constructor has rejected a path that names no file
C6_Witness ==
    pc = "raised" /\ edge_file.type = "str" /\ disk.kind = "absent" /\ exc = "ValueError"

\* C7: a tab-separated header with 'object' and without 'subject' raises
\* CSFGraphNoSubjectColumnError, one with 'subject' and without 'object'
\* raises CSFGraphNoObjectColumnError, and for one with both parse_header
\* returns is_legacy False and the header line is not read as an edge.
C7_HeaderColumnsAreChecked ==
    (Finished /\ IsEdgeFile(disk) /\ disk.delim = "\t") =>
        LET items == Range(FirstItems(disk))
        IN  /\ ("object" \in items /\ "subject" \notin items)
                  => exc = "CSFGraphNoSubjectColumnError"
            /\ ("subject" \in items /\ "object" \notin items)
                  => exc = "CSFGraphNoObjectColumnError"
            /\ ({"subject", "object"} \subseteq items)
                  => /\ parse_header(disk).returned
                     /\ Built
                     /\ DOMAIN node_to_index_map = FileNodes(disk)

\* C8: a legacy file without header, of space-delimited lines of two nodes
\* and an optional weight, is accepted and its first line is read as an
\* edge; a legacy file with another number of columns raises ValueError.
C8_LegacyFilesAreAccepted ==
    (Finished /\ IsLegacy(disk) /\ disk.delim = " ") =>
        IF Len(disk.lines[1]) \in {2, 3}
        THEN /\ Built
             /\ {Subject(disk, disk.lines[1]), Object(disk, disk.lines[1])}
                    \subseteq DOMAIN node_to_index_map
        ELSE exc = "ValueError"

\* ------------------------------------------------------------------------
\* Claims about SkipGramWord2Vec.next_batch
\* ------------------------------------------------------------------------
Abs(x) == IF x < 0 THEN -x ELSE x
\* next_batch was called within its stated preconditions and returned
BatchReturned == called /\ sg_exc = "" /\ Len(data) >= Span(skip_window)
\* the iteration (1-based) that wrote pair k, the data position of its center
\* word and the data position of the context word of pair k
IterationOf(k) == ((k - 1) \div call.num_skips) + 1
CenterOf(k) == starts[IterationOf(k)] + skip_window
ContextOf(k) == starts[IterationOf(k)] + ctx_pos[k]
\* the window start that follows s
NextStart(s) == IF s = Len(data) - Span(skip_window) THEN 0 ELSE s + 1

\* C9 as stated: batch and labels have batch_size rows, every pair is
\* (data[c], data[c+d]) for a center position c and an offset d with
\* 1 <= |d| <= skip_window, and each center position contributes exactly
\* num_skips pairs, whose context positions are pairwise distinct.
C9_EachCenterGivesNumSkipsPairs ==
    BatchReturned =>
        /\ Len(batch) = call.batch_size
        /\ Len(labels) = call.batch_size
        /\ \E f \in [1..call.batch_size ->
                        (0..(Len(data) - 1)) \X ((-skip_window)..skip_window)] :
             /\ \A k \in 1..call.batch_size :
                  LET c == f[k][1]
                      d == f[k][2]
                  IN  /\ d # 0
                      /\ c + d \in 0..(Len(data) - 1)
                      /\ batch[k] = data[c + 1]
                      /\ labels[k] = <<data[c + d + 1]>>
             /\ \A k \in 1..call.batch_size :
                  LET same == {m \in 1..call.batch_size : f[m][1] = f[k][1]}
                  IN  /\ Cardinality(same) = call.num_skips
                      /\ \A m \in same : m # k => f[m][2] # f[k][2]

\* C9 as amended: batch and labels have batch_size rows; iteration i of the
\* call uses the window that starts at starts[i] and writes the num_skips
\* consecutive pairs (data[c], data[p]) with c the center position of that
\* window and p a position of the window with 1 <= |p - c| <= skip_window,
\* the num_skips positions p of one iteration being pairwise distinct. A
\* center position contributes num_skips pairs for each iteration that uses
\* its window. With batch_size/num_skips <= len(data) - 2*skip_window, the
\* number of windows of data, the iterations use pairwise distinct windows,
\* so each center position contributes exactly num_skips pairs or none; with
\* more iterations than windows some window is used again.
C9_EachWindowGivesNumSkipsPairs ==
    BatchReturned =>
        /\ Len(batch) = call.batch_size
        /\ Len(labels) = call.batch_size
        /\ Len(ctx_pos) = call.batch_size
        /\ Len(starts) * call.num_skips = call.batch_size
        /\ \A k \in 1..call.batch_size :
             /\ CenterOf(k) \in 0..(Len(data) - 1)
             /\ ContextOf(k) \in 0..(Len(data) - 1)
             /\ batch[k] = data[CenterOf(k) + 1]
             /\ labels[k] = <<data[ContextOf(k) + 1]>>
             /\ Abs(ContextOf(k) - CenterOf(k)) \in 1..skip_window
             /\ \A m \in 1..call.batch_size :
                  (m # k /\ IterationOf(m) = IterationOf(k)) => ContextOf(m) # ContextOf(k)
        /\ \A c \in 0..(Len(data) - 1) :
             Cardinality({k \in 1..call.batch_size : CenterOf(k) = c})
                = call.num_skips
                    * Cardinality({i \in 1..Len(starts) : starts[i] + skip_window = c})
        /\ IF Len(starts) <= Len(data) - 2 * skip_window
           THEN \A i, j \in 1..Len(starts) : i # j => starts[i] # starts[j]
           ELSE \E i, j \in 1..Len(starts) : i # j /\ starts[i] = starts[j]

\* a call that returned two pairs of one window of a list longer than the window
C9_Witness ==
    /\ BatchReturned
    /\ call.batch_size = 2 /\ call.num_skips = 2
    /\ Len(starts) = 1
    /\ Len(data) > Span(skip_window)
    /\ batch # <<>> /\ labels[1] # labels[2]

\* C10: over successive calls on the same data the window starts visited are
\* 0, 1, ..., len(data)-span, 0, 1, ...: inside a call each window follows
\* the one before it, and the first window of a call follows the last window
\* used by the calls before it (window 0 when there was none).
C10_NoWindowSkipped ==
    (called /\ Len(data) >= Span(skip_window)) =>
        /\ \A i \in 1..Len(starts) : starts[i] \in 0..(Len(data) - Span(skip_window))
        /\ \A i \in 1..(Len(starts) - 1) : starts[i + 1] = NextStart(starts[i])
        /\ starts # <<>> =>
             starts[1] = IF prev_last = -1 THEN 0 ELSE NextStart(prev_last)
        /\ data_index = IF LastStart = -1 THEN 0 ELSE NextStart(LastStart)

\* a call that went on from the window after the previous call's last one
\* and then wrapped to the start of the data
C10_Witness ==
    /\ called /\ sg_exc = ""
    /\ Len(data) > Span(skip_window)
    /\ prev_last >= 0
    /\ Len(starts) = 2
    /\ starts[1] = prev_last + 1
    /\ starts[2] = 0

\* ------------------------------------------------------------------------
\* Claims about ContinuousBagOfWordsWord2Vec.generate_batch_cbow
\* ------------------------------------------------------------------------
\* the word of data at 0-based position p, counted around the end of the list
WordAt(p) == cbow.data[(p % Len(cbow.data)) + 1]
\* the c-th (1-based) of the offsets 0..2*window_size without window_size
OffsetOfColumn(c) == IF c - 1 < cbow.window_size THEN c - 1 ELSE c

\* C11: generate_batch_cbow returns batch of shape (batch_size, 2*window_size)
\* and labels of shape (batch_size, 1); with s the data_index at entry, row i
\* has the label data[(s+i+window_size) mod n] and lists data[(s+i+j) mod n]
\* for j = 0..2*window_size without j = window_size, in increasing j.
C11_CbowRowsAreWindows ==
    (cbow.called /\ cbow.exc = "") =>
        /\ Len(cbow.batch) = cbow.batch_size
        /\ Len(cbow.labels) = cbow.batch_size
        /\ \A i \in 1..cbow.batch_size :
             /\ cbow.labels[i] = <<WordAt(cbow.entry + (i - 1) + cbow.window_size)>>
             /\ cbow.batch[i] = [c \in 1..(2 * cbow.window_size) |->
                                    WordAt(cbow.entry + (i - 1) + OffsetOfColumn(c))]

\* a call that began inside the list and whose windows run around its end
C11_Witness ==
    /\ cbow.called /\ cbow.exc = ""
    /\ cbow.window_size = 1 /\ cbow.batch_size = 2
    /\ Len(cbow.data) = 3 /\ cbow.entry = 2
    /\ cbow.data = <<1, 2, 2>>
    /\ cbow.batch = <<<<2, 2>>, <<1, 2>>>>
    /\ cbow.labels = <<<<1>>, <<2>>>>

\* ------------------------------------------------------------------------
\* Claims about SkipGramWord2Vec.__init__
\* ------------------------------------------------------------------------
\* C12: for data that holds lists, construction raises TypeError whenever a
\* walk has an element that is not an int, and ends with list_of_lists True
\* only when every element of every walk is an int.
C12_WalksMustBeAllInts ==
    (skipgram.pc # "new" /\ AnyList(skipgram.data)) =>
        LET d == skipgram.data
            bad == \E i \in 1..Len(d) :
                      d[i].list /\ \E k \in 1..Len(d[i].items) : d[i].items[k] # "int"
        IN  /\ bad => (skipgram.pc = "raised" /\ skipgram.exc = "TypeError")
            /\ (skipgram.pc = "constructed" /\ skipgram.list_of_lists = "True") => ~bad

\* ------------------------------------------------------------------------
\* Claims about LinkPrediction.transform
\* ------------------------------------------------------------------------
\* every node of the edge list has an embedding
EdgesKnown == \A i \in 1..Len(link.edge_list) :
                 link.edge_list[i][1] \in link.known /\ link.edge_list[i][2] \in link.known
\* the edge embedding of the documentation: one of the four transforms
DocumentedEmbedding(method, edge) ==
    LET a == NodeVector(edge[1])
        b == NodeVector(edge[2])
    IN  IF method = "hadamard" THEN Hadamard(a, b)
        ELSE IF method = "average" THEN Average(a, b)
        ELSE IF method = "weightedL1" THEN WeightedL1(a, b)
        ELSE WeightedL2(a, b)

\* C13: for an edge_embedding_method other than 'hadamard', 'average',
\* 'weightedL1' and 'weightedL2', and any edge_list, transform returns no
\* array but logs an error and exits with status 1; for the four methods it
\* returns one edge embedding per edge, in the order of edge_list.
C13_OnlyFourMethods ==
    (link.pc # "new" /\ EdgesKnown) =>
        IF link.method \in EdgeMethods
        THEN /\ link.pc = "returned"
             /\ Len(link.embs) = Len(link.edge_list)
             /\ \A i \in 1..Len(link.edge_list) :
                  link.embs[i] = DocumentedEmbedding(link.method, link.edge_list[i])
        ELSE /\ link.pc = "exited"
             /\ link.exit_status = 1
             /\ link.logged = 1

\* ------------------------------------------------------------------------
\* Claims about the Embedder constructor
\* ------------------------------------------------------------------------
\* C14: the constructor checks its arguments first: with vocabulary_size 0
\* or embedding_size 0 it raises ValueError without building the model, and
\* only with both sizes valid does it reach the abstract model build, which
\* raises NotImplementedError.
C14_SizesCheckedBeforeBuild ==
    embedder.pc # "new" =>
        IF embedder.vocabulary_size = 0 \/ embedder.embedding_size = 0
        THEN embedder.exc = "ValueError" /\ ~embedder.built
        ELSE embedder.exc = "NotImplementedError" /\ embedder.built

C14_Witness ==
    /\ embedder.pc = "raised"
    /\ embedder.vocabulary_size = 5 /\ embedder.embedding_size = 5
    /\ embedder.exc = "NotImplementedError" /\ embedder.built

\* ------------------------------------------------------------------------
\* Claims about the training loops
\* ------------------------------------------------------------------------
\* arguments the batch generators accept: some data, num_skips within the
\* window, batch sizes that num_skips divides
Trainable ==
    /\ trainer.num_skips <= 2 * trainer.skip_window
    /\ IF trainer.list_of_lists = "True"
       THEN \A i \in 1..Len(trainer.walks) :
              LET batch_count == (Len(trainer.walks[i]) - Span(trainer.skip_window)) + 1
              IN  batch_count >= 0 /\ batch_count % trainer.num_skips = 0
       ELSE trainer.data # <<>> /\ trainer.batch_size % trainer.num_skips = 0

\* C15: train of both classes ends after exactly num_steps iterations, each
\* of which generates one batch and then runs one optimization on it, and
\* the loss is reported exactly at step 1 and at the multiples of
\* display_step.
C15_TrainRunsNumSteps ==
    Trainable =>
        /\ trainer.pc # "raised"
        /\ trainer.batches = trainer.step /\ trainer.optimizations = trainer.step
        /\ trainer.reported = {n \in 1..trainer.step : n = 1 \/ n % trainer.display_step = 0}
        /\ trainer.pc = "returned" => trainer.step = trainer.num_steps
====
